---------------------------- MODULE Spec2Model ----------------------------
(***************************************************************************)
(* A model of roadenv (src/src/roadenv/env.py): the DotEnv loader, the     *)
(* EnvParser schema registry and the EnvManager facade, all acting on the  *)
(* process environment os.environ.                                         *)
(*                                                                         *)
(* Strings are sequences of one-character strings, so that stripping,      *)
(* splitting, unquoting, interpolation and message formatting are computed *)
(* character by character as the code computes them.  A Python dict is a   *)
(* sequence of [k, v] records in insertion order (assigning to an existing *)
(* key keeps its position).                                                *)
(***************************************************************************)
EXTENDS Integers, Sequences, FiniteSets, TLC

VARIABLES
    environ,    \* os.environ
    fs,         \* the file system: path -> [found, text]
    dotenv,     \* the DotEnv instance in use: [path, vars]
    other,      \* the DotEnv instance used before it, which its owner still holds
    pc,         \* "idle", or "loading" while DotEnv.load iterates over the file
    frame,      \* DotEnv.load's locals (override, the lines still to read) and
                \* what is known of the pass: whether it repeats the previous
                \* load (again), os.environ and self.vars when it began
                \* (startEnv, startVars), the first value it stored per key (first)
    pvars,      \* EnvParser.vars
    values,     \* EnvParser.values
    prefix,     \* EnvParser.prefix
    regOrder,   \* the registered full names, most recently add()ed last
    call        \* the last completed call: its arguments and its outcome

vars == <<environ, fs, dotenv, other, pc, frame, pvars, values, prefix, regOrder, call>>

-----------------------------------------------------------------------------
(* Bounds of the model *)

\* the longest file (in lines) the file system starts with
MaxLines == 2
\* the most specs a registry holds
MaxVars == 2
\* the most names one require() call is given
MaxNames == 2
\* the most entries of the mapping a round trip starts from
MaxKeys == 2

-----------------------------------------------------------------------------
(* Characters and strings *)

LowerCase == <<"a", "b", "c", "d", "e", "f", "g", "h", "i", "j", "k", "l", "m",
               "n", "o", "p", "q", "r", "s", "t", "u", "v", "w", "x", "y", "z">>

UpperCase == <<"A", "B", "C", "D", "E", "F", "G", "H", "I", "J", "K", "L", "M",
               "N", "O", "P", "Q", "R", "S", "T", "U", "V", "W", "X", "Y", "Z">>

Digits == {"0", "1", "2", "3", "4", "5", "6", "7", "8", "9"}

Letters == {LowerCase[i] : i \in 1..26} \cup {UpperCase[i] : i \in 1..26}

\* str.strip() with no argument removes whitespace
Whitespace == {" ", "\t", "\n", "\r"}

UpperChar(c) ==
    IF \E i \in 1..26 : LowerCase[i] = c
    THEN UpperCase[CHOOSE i \in 1..26 : LowerCase[i] = c]
    ELSE c

LowerChar(c) ==
    IF \E i \in 1..26 : UpperCase[i] = c
    THEN LowerCase[CHOOSE i \in 1..26 : UpperCase[i] = c]
    ELSE c

Upper(s) == [i \in 1..Len(s) |-> UpperChar(s[i])]

Lower(s) == [i \in 1..Len(s) |-> LowerChar(s[i])]

Contains(s, c) == \E i \in 1..Len(s) : s[i] = c

\* the index of the first c in s at or after position from, 0 when there is none
IndexFrom(s, c, from) ==
    IF \E i \in from..Len(s) : s[i] = c
    THEN CHOOSE i \in from..Len(s) : s[i] = c /\ \A j \in from..(i - 1) : s[j] # c
    ELSE 0

StartsWith(s, c) == Len(s) > 0 /\ s[1] = c

EndsWith(s, c) == Len(s) > 0 /\ s[Len(s)] = c

Strip(s) ==
    IF \A i \in 1..Len(s) : s[i] \in Whitespace
    THEN <<>>
    ELSE LET a == CHOOSE i \in 1..Len(s) :
                      s[i] \notin Whitespace /\ \A j \in 1..(i - 1) : s[j] \in Whitespace
             b == CHOOSE i \in 1..Len(s) :
                      s[i] \notin Whitespace /\ \A j \in (i + 1)..Len(s) : s[j] \in Whitespace
         IN  SubSeq(s, a, b)

RECURSIVE Join(_, _)
\* sep.join(parts)
Join(parts, sep) ==
    IF parts = <<>> THEN <<>>
    ELSE IF Len(parts) = 1 THEN parts[1]
    ELSE parts[1] \o sep \o Join(Tail(parts), sep)

RECURSIVE Split(_, _)
\* s.split(c) for a one-character separator
Split(s, c) ==
    LET i == IndexFrom(s, c, 1)
    IN  IF i = 0 THEN <<s>>
        ELSE <<SubSeq(s, 1, i - 1)>> \o Split(SubSeq(s, i + 1, Len(s)), c)

-----------------------------------------------------------------------------
(* Python dicts *)

DictHas(d, k) == \E i \in 1..Len(d) : d[i].k = k

DictIndex(d, k) == CHOOSE i \in 1..Len(d) : d[i].k = k

DictGet(d, k, default) == IF DictHas(d, k) THEN d[DictIndex(d, k)].v ELSE default

\* dict.setdefault(k, v): the first value stored under a key wins
DictSetDefault(d, k, v) ==
    IF DictHas(d, k) THEN d ELSE Append(d, [k |-> k, v |-> v])

\* d[k] = v
DictSet(d, k, v) ==
    IF DictHas(d, k)
    THEN [d EXCEPT ![DictIndex(d, k)].v = v]
    ELSE Append(d, [k |-> k, v |-> v])

DictKeys(d) == {d[i].k : i \in 1..Len(d)}

\* d1 == d2 for dicts: the same keys with the same values, in any order
DictEq(d1, d2) ==
    /\ DictKeys(d1) = DictKeys(d2)
    /\ \A k \in DictKeys(d1) : DictGet(d1, k, <<>>) = DictGet(d2, k, <<>>)

-----------------------------------------------------------------------------
(* DotEnv *)

NameStart == Letters \cup {"_"}

NameChars == Letters \cup Digits \cup {"_"}

\* the end of the match of \$\{([^}]+)\} that starts at s[i] = "$", 0 for no match
BracedEnd(s, i) ==
    IF i + 1 <= Len(s) /\ s[i + 1] = "{"
    THEN LET close == IndexFrom(s, "}", i + 2)
         IN  IF close >= i + 3 THEN close ELSE 0
    ELSE 0

\* the end of the match of \$([A-Za-z_][A-Za-z0-9_]*) that starts at s[i] = "$"
BareEnd(s, i) ==
    IF i + 1 <= Len(s) /\ s[i + 1] \in NameStart
    THEN CHOOSE e \in (i + 1)..Len(s) :
             /\ \A j \in (i + 1)..e : s[j] \in NameChars
             /\ (e = Len(s) \/ s[e + 1] \notin NameChars)
    ELSE 0

RECURSIVE Tokens(_, _)
\* re.sub's left-to-right scan of s from position i: the literal characters and
\* the references (match.group(1) or match.group(2)) it finds
Tokens(s, i) ==
    IF i > Len(s) THEN <<>>
    ELSE IF s[i] = "$" /\ BracedEnd(s, i) # 0
    THEN <<[ref |-> TRUE, text |-> SubSeq(s, i + 2, BracedEnd(s, i) - 1)]>>
             \o Tokens(s, BracedEnd(s, i) + 1)
    ELSE IF s[i] = "$" /\ BareEnd(s, i) # 0
    THEN <<[ref |-> TRUE, text |-> SubSeq(s, i + 1, BareEnd(s, i))]>>
             \o Tokens(s, BareEnd(s, i) + 1)
    ELSE <<[ref |-> FALSE, text |-> <<s[i]>>]>> \o Tokens(s, i + 1)

RECURSIVE Substitute(_, _, _)
Substitute(toks, first, second) ==
    IF toks = <<>> THEN <<>>
    ELSE (IF toks[1].ref
          THEN DictGet(first, toks[1].text, DictGet(second, toks[1].text, <<>>))
          ELSE toks[1].text) \o Substitute(Tail(toks), first, second)

\* the lookup the other way round: self.vars.get(name, os.environ.get(name, ""))
InterpolateVarsFirst(value, first, second) == Substitute(Tokens(value, 1), second, first)

\* DotEnv._interpolate, called with first = os.environ and second = self.vars
Interpolate(value, first, second) == Substitute(Tokens(value, 1), first, second)

\* the quote stripping of DotEnv.load
Unquote(value) ==
    IF StartsWith(value, "\"") /\ EndsWith(value, "\"") THEN SubSeq(value, 2, Len(value) - 1)
    ELSE IF StartsWith(value, "'") /\ EndsWith(value, "'") THEN SubSeq(value, 2, Len(value) - 1)
    ELSE value

\* whether DotEnv.load skips the line: blank, a comment, or without "="
Skipped(line) ==
    \/ Strip(line) = <<>>
    \/ StartsWith(Strip(line), "#")
    \/ ~Contains(Strip(line), "=")

\* key, of key, value = line.split("=", 1), stripped
LineKey(line) ==
    LET s == Strip(line)
    IN  Strip(SubSeq(s, 1, IndexFrom(s, "=", 1) - 1))

\* value, of the same split, stripped and unquoted
LineValue(line) ==
    LET s == Strip(line)
    IN  Unquote(Strip(SubSeq(s, IndexFrom(s, "=", 1) + 1, Len(s))))

\* os.environ after one line: every line's value is written, whatever override says
WriteEnvAlways(env, key, value, override) == DictSet(env, key, value)

\* os.environ after one line: if override or key not in os.environ
WriteEnv(env, key, value, override) ==
    IF override \/ ~DictHas(env, key) THEN DictSet(env, key, value) ELSE env

\* the body of DotEnv.load's loop, for one line of the file
LoadLine(line, override, dvars, env) ==
    IF Skipped(line) THEN [vars |-> dvars, env |-> env]
    ELSE LET key == LineKey(line)
             value == Interpolate(LineValue(line), env, dvars)
         IN  [vars |-> DictSet(dvars, key, value),
              env  |-> WriteEnv(env, key, value, override)]

RECURSIVE SplitLines(_)
\* iterating over the open file: each line with its line break
SplitLines(text) ==
    IF text = <<>> THEN <<>>
    ELSE LET i == IndexFrom(text, "\n", 1)
         IN  IF i = 0 THEN <<text>>
             ELSE <<SubSeq(text, 1, i)>> \o SplitLines(SubSeq(text, i + 1, Len(text)))

\* one line of DotEnv.save, never quoted
SaveLineBare(key, value) == key \o <<"=">> \o value

\* one line of DotEnv.save
SaveLine(key, value) ==
    IF Contains(value, " ") \/ Contains(value, "=")
    THEN key \o <<"=", "\"">> \o value \o <<"\"">>
    ELSE key \o <<"=">> \o value

\* what DotEnv.save writes
SaveText(dvars) ==
    Join([i \in 1..Len(dvars) |-> SaveLine(dvars[i].k, dvars[i].v)], <<"\n">>) \o <<"\n">>

NoFile == [found |-> FALSE, text |-> <<>>]

File(text) == [found |-> TRUE, text |-> text]

NoCall == [op |-> "none"]

NoInstance == [path |-> "", vars |-> <<>>]

NoFrame == [override |-> FALSE, lines |-> <<>>, again |-> FALSE,
            startEnv |-> <<>>, startVars |-> <<>>, first |-> <<>>]

parserVars == <<pvars, values, prefix, regOrder>>

\* whether this load(override=False) of p directly follows a completed
\* load(override=False) of the same, since then unchanged, file
Reload(p, override) ==
    /\ ~override
    /\ call.op = "load"
    /\ call.found
    /\ ~call.override
    /\ call.path = p

\* DotEnv.load on self.path = p: a missing file returns {} at once, otherwise
\* the file is opened and its lines are read one by one
LoadAt(p, override) ==
    /\ pc = "idle"
    /\ dotenv' = [dotenv EXCEPT !.path = p]
    /\ IF fs[p].found
       THEN /\ pc' = "loading"
            /\ frame' = [override |-> override, lines |-> SplitLines(fs[p].text),
                         again |-> Reload(p, override),
                         startEnv |-> environ, startVars |-> dotenv.vars,
                         first |-> <<>>]
            /\ UNCHANGED call
       ELSE /\ call' = [op |-> "load", path |-> p, override |-> override,
                        found |-> FALSE, fresh |-> dotenv.vars = <<>>, ret |-> <<>>]
            /\ UNCHANGED <<pc, frame>>
    /\ UNCHANGED <<environ, fs, other, parserVars>>

\* DotEnv.load
Load(override) == LoadAt(dotenv.path, override)

\* EnvManager.load_dotenv
LoadDotenv(p, override) == LoadAt(p, override)

\* the first value this pass stored under each key
FirstStored(first, line, after) ==
    IF Skipped(line) THEN first
    ELSE DictSetDefault(first, LineKey(line), DictGet(after, LineKey(line), <<>>))

\* one iteration of DotEnv.load's loop
LoadStep ==
    /\ pc = "loading"
    /\ frame.lines # <<>>
    /\ LET line == Head(frame.lines)
           after == LoadLine(line, frame.override, dotenv.vars, environ)
       IN  /\ dotenv' = [dotenv EXCEPT !.vars = after.vars]
           /\ environ' = after.env
           /\ frame' = [frame EXCEPT !.lines = Tail(frame.lines),
                                     !.first = FirstStored(frame.first, line, after.vars)]
    /\ UNCHANGED <<fs, pc, call, other, parserVars>>

\* return self.vars, with only the keys this pass stored
LoadResultPassOnly(dvars, first) == SelectSeq(dvars, LAMBDA e : DictHas(first, e.k))

\* return self.vars
LoadResult(dvars, first) == dvars

\* DotEnv.load returns once the file is exhausted
LoadReturn ==
    /\ pc = "loading"
    /\ frame.lines = <<>>
    /\ pc' = "idle"
    /\ call' = [op |-> "load", path |-> dotenv.path, override |-> frame.override,
                found |-> TRUE, fresh |-> frame.startVars = <<>>,
                ret |-> LoadResult(dotenv.vars, frame.first)]
    /\ frame' = NoFrame
    /\ UNCHANGED <<environ, fs, dotenv, other, parserVars>>

\* DotEnv.set
Set(key, value) ==
    /\ pc = "idle"
    /\ dotenv' = [dotenv EXCEPT !.vars = DictSet(dotenv.vars, key, value)]
    /\ environ' = DictSet(environ, key, value)
    /\ call' = [op |-> "set"]
    /\ UNCHANGED <<fs, pc, frame, other, parserVars>>

\* DotEnv.save
Save ==
    /\ pc = "idle"
    /\ fs' = [fs EXCEPT ![dotenv.path] = File(SaveText(dotenv.vars))]
    /\ call' = [op |-> "save"]
    /\ UNCHANGED <<environ, dotenv, pc, frame, other, parserVars>>

\* DotEnv(path): a new instance takes the place of the one in use
NewDotEnv(p) ==
    /\ pc = "idle"
    /\ dotenv' = [path |-> p, vars |-> <<>>]
    /\ other' = dotenv
    /\ call' = [op |-> "new"]
    /\ UNCHANGED <<environ, fs, pc, frame, parserVars>>

-----------------------------------------------------------------------------
(* The loader on its own: files, load, load_dotenv, set and save *)

KeyA == <<"A">>

KeyB == <<"B">>

KeyC == <<"C">>

Paths == {".env", "alt.env"}

\* the lines a file starts from: assignments, a bare and a braced reference,
\* quoted values, a comment and a line without "="
LineSet ==
    { <<"A", "=", "1">>,
      <<"B", "=", "$", "A", "-", "2">>,
      <<"B", "=", "$", "{", "A", "}", "z">>,
      <<"A", " ", "=", " ", "'", "x", " ", "y", "'", " ">>,
      <<"#", " ", "A", "=", "3">>,
      <<"A">> }

RECURSIVE SeqsUpTo(_, _)
\* the sequences over S of length at most n
SeqsUpTo(S, n) ==
    IF n = 0 THEN {<<>>}
    ELSE LET shorter == SeqsUpTo(S, n - 1)
         IN  shorter \cup {Append(q, x) : q \in shorter, x \in S}

FileSet == {NoFile} \cup {File(Join(ls, <<"\n">>)) : ls \in SeqsUpTo(LineSet, MaxLines)}

EnvSet == { <<>>, <<[k |-> KeyA, v |-> <<"9">>]>> }

SetValues == { <<"x", " ", "y">> }

ParserIdle ==
    /\ pvars = <<>>
    /\ values = <<>>
    /\ prefix = <<>>
    /\ regOrder = <<>>

LoaderInit ==
    /\ environ \in EnvSet
    /\ fs \in {[p \in Paths |-> IF p = ".env" THEN f ELSE File(<<"C", "=", "3">>)] : f \in FileSet}
    /\ dotenv = [path |-> ".env", vars |-> <<>>]
    /\ other = NoInstance
    /\ pc = "idle"
    /\ frame = NoFrame
    /\ call = NoCall
    /\ ParserIdle

LoaderNext ==
    \/ \E o \in BOOLEAN : Load(o)
    \/ \E p \in Paths, o \in BOOLEAN : LoadDotenv(p, o)
    \/ LoadStep
    \/ LoadReturn
    \/ \E k \in {KeyB}, v \in SetValues : Set(k, v)
    \/ Save

SpecLoader == LoaderInit /\ [][LoaderNext]_vars

-----------------------------------------------------------------------------
(* Save, then load by a fresh loader *)

RoundKeys == {KeyA, KeyB, KeyC}

\* the values of the mapping saved: a harmless "$", a leading space, "=", a
\* reference, enclosing quotes, a leading tab, the empty string and a line break
RoundValues ==
    { <<"$", "1">>,
      <<" ", "x">>,
      <<"a", "=", "b">>,
      <<"$", "A">>,
      <<"\"", "q", "\"">>,
      <<"\t", "x">>,
      <<>>,
      <<"p", "\n", "q">> }

RECURSIVE DictsUpTo(_)
\* the dicts of at most n entries, keys from RoundKeys, values from RoundValues
DictsUpTo(n) ==
    IF n = 0 THEN {<<>>}
    ELSE LET smaller == DictsUpTo(n - 1)
         IN  smaller \cup {Append(d, [k |-> k, v |-> v]) :
                              d \in {e \in smaller : Len(e) = n - 1},
                              k \in RoundKeys, v \in RoundValues}

RoundTripInit ==
    /\ environ = <<[k |-> KeyA, v |-> <<"9">>]>>
    /\ fs = [p \in Paths |-> NoFile]
    /\ dotenv \in {[path |-> ".env", vars |-> d] :
                      d \in {e \in DictsUpTo(MaxKeys) :
                                \A i, j \in 1..Len(e) : i # j => e[i].k # e[j].k}}
    /\ other = NoInstance
    /\ pc = "idle"
    /\ frame = NoFrame
    /\ call = NoCall
    /\ ParserIdle

RoundTripNext ==
    \/ Save
    \/ NewDotEnv(".env")
    \/ Load(FALSE)
    \/ LoadStep
    \/ LoadReturn

SpecRoundTrip == RoundTripInit /\ [][RoundTripNext]_vars

-----------------------------------------------------------------------------
(* EnvParser *)

\* repr() of a str without quotes, backslashes or control characters
ReprStr(s) == <<"'">> \o s \o <<"'">>

DigitSeq == <<"0", "1", "2", "3", "4", "5", "6", "7", "8", "9">>

DigitVal(c) == (CHOOSE i \in 1..10 : DigitSeq[i] = c) - 1

RECURSIVE NatToStr(_)
NatToStr(n) == IF n < 10 THEN <<DigitSeq[n + 1]>> ELSE NatToStr(n \div 10) \o <<DigitSeq[(n % 10) + 1]>>

IntToStr(n) == IF n < 0 THEN <<"-">> \o NatToStr(-n) ELSE NatToStr(n)

\* A Python value is its type and its repr(): two values of one type are equal
\* exactly when their reprs are
NoneV == [t |-> "none", r |-> <<"N", "o", "n", "e">>]

StrV(s) == [t |-> "str", r |-> ReprStr(s)]

IntV(n) == [t |-> "int", r |-> IntToStr(n)]

BoolV(b) == [t |-> "bool", r |-> IF b THEN <<"T", "r", "u", "e">> ELSE <<"F", "a", "l", "s", "e">>]

\* a list of str
ListV(l) ==
    [t |-> "list",
     r |-> <<"[">> \o Join([i \in 1..Len(l) |-> ReprStr(l[i])], <<",", " ">>) \o <<"]">>]

\* a dict of str to str
DictV(d) ==
    [t |-> "dict",
     r |-> <<"{">> \o Join([i \in 1..Len(d) |-> ReprStr(d[i].k) \o <<":", " ">> \o ReprStr(d[i].v)],
                            <<",", " ">>) \o <<"}">>]

MsgRequired == <<" ", "i", "s", " ", "r", "e", "q", "u", "i", "r", "e", "d">>

MsgChoices == <<" ", "m", "u", "s", "t", " ", "b", "e", " ", "o", "n", "e", " ", "o", "f", " ">>

MsgValidation == <<" ", "f", "a", "i", "l", "e", "d", " ", "v", "a", "l", "i", "d", "a", "t", "i", "o", "n">>

MsgColon == <<":", " ">>

MsgSep == <<";", " ">>

MsgInvalidEnv == <<"I", "n", "v", "a", "l", "i", "d", " ", "E", "N", "V", ":", " ">>

\* the text of the ValueError int() raises, before the repr of its argument
MsgIntLiteral ==
    <<"i", "n", "v", "a", "l", "i", "d", " ", "l", "i", "t", "e", "r", "a", "l", " ",
      "f", "o", "r", " ", "i", "n", "t", "(", ")", " ", "w", "i", "t", "h", " ",
      "b", "a", "s", "e", " ", "1", "0", ":", " ">>

\* repr() of a converted value
Repr(value) == value.r

\* repr() of a list, as an f-string formats var.choices
ReprList(l) == <<"[">> \o Join([i \in 1..Len(l) |-> Repr(l[i])], <<",", " ">>) \o <<"]">>

\* the digits of an int literal: digits, single underscores between them
IsDigits(s) ==
    /\ s # <<>>
    /\ s[1] \in Digits
    /\ s[Len(s)] \in Digits
    /\ \A i \in 1..Len(s) : s[i] \in Digits \cup {"_"}
    /\ \A i \in 1..(Len(s) - 1) : ~(s[i] = "_" /\ s[i + 1] = "_")

Unsigned(s) == IF s # <<>> /\ s[1] \in {"+", "-"} THEN Tail(s) ELSE s

\* whether int(s) succeeds: whitespace around, a sign, the digits
IsInt(s) == IsDigits(Unsigned(Strip(s)))

RECURSIVE DigitsValue(_, _)
DigitsValue(s, acc) ==
    IF s = <<>> THEN acc
    ELSE IF s[1] = "_" THEN DigitsValue(Tail(s), acc)
    ELSE DigitsValue(Tail(s), 10 * acc + DigitVal(s[1]))

IntOf(s) ==
    LET t == Strip(s)
    IN  IF t[1] = "-" THEN -DigitsValue(Tail(t), 0) ELSE DigitsValue(Unsigned(t), 0)

TrueWords == { <<"t", "r", "u", "e">>, <<"1">>, <<"y", "e", "s">>, <<"o", "n">> }

\* result.setdefault(var.name, value): an earlier spec's value is kept
StoreResultFirst(result, name, value) == DictSetDefault(result, name, value)

\* result[var.name] = value
StoreResult(result, name, value) == DictSet(result, name, value)

RECURSIVE PairsToDict(_, _)
\* the loop of _convert for typ == dict
PairsToDict(pairs, result) ==
    IF pairs = <<>> THEN result
    ELSE LET pair == pairs[1]
             i == IndexFrom(pair, "=", 1)
         IN  IF i = 0 THEN PairsToDict(Tail(pairs), result)
             ELSE PairsToDict(Tail(pairs),
                              DictSet(result, Strip(SubSeq(pair, 1, i - 1)),
                                      Strip(SubSeq(pair, i + 1, Len(pair)))))

\* EnvParser._convert: the value, or the ValueError's message
Convert(value, typ) ==
    CASE typ = "bool" -> [ok |-> TRUE, value |-> BoolV(Lower(value) \in TrueWords), msg |-> <<>>]
      [] typ = "list" -> [ok |-> TRUE, msg |-> <<>>,
                          value |-> ListV([i \in 1..Len(Split(value, ",")) |->
                                              Strip(Split(value, ",")[i])])]
      [] typ = "dict" -> [ok |-> TRUE, msg |-> <<>>,
                          value |-> DictV(PairsToDict(Split(value, ","), <<>>))]
      [] typ = "int"  -> IF IsInt(value)
                         THEN [ok |-> TRUE, value |-> IntV(IntOf(value)), msg |-> <<>>]
                         ELSE [ok |-> FALSE, value |-> NoneV,
                               msg |-> MsgIntLiteral \o ReprStr(value)]
      [] OTHER        -> [ok |-> TRUE, value |-> StrV(value), msg |-> <<>>]

\* bool(value)
Truthy(value) ==
    CASE value.t = "none" -> FALSE
      [] value.t = "bool" -> value = BoolV(TRUE)
      [] value.t = "int"  -> value # IntV(0)
      [] value.t = "str"  -> value # StrV(<<>>)
      [] value.t = "list" -> value # ListV(<<>>)
      [] OTHER            -> value # DictV(<<>>)

\* var.validator(value) for the validators of the model: "bool" is the
\* predicate bool, "none" is no validator
Accepts(validator, value) == Truthy(value)

\* EnvVar.full_name
FullName(var) ==
    IF var.prefix # <<>> THEN var.prefix \o <<"_">> \o var.name ELSE var.name

InChoices(value, choices) == \E i \in 1..Len(choices) : choices[i] = value

\* the body of EnvParser.parse's loop for one spec: acc is [result, errors]
ParseVar(full_name, var, env, acc) ==
    IF ~DictHas(env, full_name)
    THEN IF var.required
         THEN [acc EXCEPT !.errors = Append(@, full_name \o MsgRequired)]
         ELSE [acc EXCEPT !.result = StoreResult(@, var.name, var.default)]
    ELSE LET conv == Convert(DictGet(env, full_name, <<>>), var.type)
         IN  IF ~conv.ok
             THEN [acc EXCEPT !.errors = Append(@, full_name \o MsgColon \o conv.msg)]
             ELSE IF var.choices # <<>> /\ ~InChoices(conv.value, var.choices)
             THEN [acc EXCEPT !.errors =
                       Append(@, full_name \o MsgChoices \o ReprList(var.choices))]
             ELSE IF var.validator # "none" /\ ~Accepts(var.validator, conv.value)
             THEN [acc EXCEPT !.errors = Append(@, full_name \o MsgValidation)]
             ELSE [acc EXCEPT !.result = StoreResult(@, var.name, conv.value)]

RECURSIVE ParseLoop(_, _, _)
\* for full_name, var in self.vars.items()
ParseLoop(items, env, acc) ==
    IF items = <<>> THEN acc
    ELSE ParseLoop(Tail(items), env, ParseVar(items[1].k, items[1].v, env, acc))

NoSource == [given |-> FALSE, map |-> <<>>]

Source(map) == [given |-> TRUE, map |-> map]

\* env = env or os.environ
EffectiveEnv(src, osenv) == IF src.given /\ src.map # <<>> THEN src.map ELSE osenv

\* self.values after parse, assigned whether or not errors were recorded
CommitAlways(old, acc) == acc.result

\* self.values after parse: assigned only past the raise
Commit(old, acc) == IF acc.errors # <<>> THEN old ELSE acc.result

loaderVars == <<fs, dotenv, other, pc, frame>>

\* EnvParser.parse
Parse(src) ==
    LET acc == ParseLoop(pvars, EffectiveEnv(src, environ), [result |-> <<>>, errors |-> <<>>])
    IN  /\ values' = Commit(values, acc)
        /\ call' = IF acc.errors # <<>>
                   THEN [op |-> "parse", src |-> src, raised |-> TRUE,
                         message |-> MsgInvalidEnv \o Join(acc.errors, MsgSep),
                         result |-> <<>>]
                   ELSE [op |-> "parse", src |-> src, raised |-> FALSE,
                         message |-> <<>>, result |-> acc.result]
        /\ UNCHANGED <<environ, pvars, prefix, regOrder, loaderVars>>

\* EnvParser.add; the registry holds at most MaxVars specs
Add(name, decl) ==
    LET var == [name |-> name, type |-> decl.type, default |-> decl.default,
                required |-> decl.required, choices |-> decl.choices,
                validator |-> decl.validator, prefix |-> prefix]
    IN  /\ DictHas(pvars, FullName(var)) \/ Len(pvars) < MaxVars
        /\ pvars' = DictSet(pvars, FullName(var), var)
        /\ regOrder' = Append(SelectSeq(regOrder, LAMBDA n : n # FullName(var)), FullName(var))
        /\ call' = [op |-> "add"]
        /\ UNCHANGED <<environ, values, prefix, loaderVars>>

\* EnvParser.set_prefix
SetPrefix(p) ==
    /\ prefix' = Upper(p)
    /\ call' = [op |-> "set_prefix"]
    /\ UNCHANGED <<environ, pvars, values, regOrder, loaderVars>>

\* EnvParser.get
ParserGet(name, default) == DictGet(values, name, default)

\* EnvParser.__getattr__ for a name that is no attribute of the instance
ParserGetAttr(name) == DictGet(values, name, NoneV)

-----------------------------------------------------------------------------
(* The parser on its own: add, set_prefix and parse *)

NameX == <<"X">>

NameY == <<"Y">>

FullAX == <<"A", "_", "X">>

RequiredStr ==
    [type |-> "str", default |-> NoneV, required |-> TRUE,
     choices |-> <<>>, validator |-> "none"]

\* the keyword arguments of add: a required string, an int with a default and
\* choices, a bool validated by bool
Decls ==
    { RequiredStr,
      [type |-> "int", default |-> IntV(3000), required |-> FALSE,
       choices |-> <<IntV(1), IntV(3000)>>, validator |-> "none"],
      [type |-> "bool", default |-> BoolV(FALSE), required |-> FALSE,
       choices |-> <<>>, validator |-> "bool"] }

OptionalList ==
    [type |-> "list", default |-> NoneV, required |-> FALSE,
     choices |-> <<>>, validator |-> "none"]

\* the add calls: X with each of Decls, Y as a required string or a list
AddArgs ==
    {[name |-> NameX, decl |-> d] : d \in Decls}
        \cup {[name |-> NameY, decl |-> d] : d \in {RequiredStr, OptionalList}}

\* the source mappings parse is given
Sources ==
    { NoSource,
      Source(<<>>),
      Source(<<[k |-> NameX, v |-> <<"1">>], [k |-> FullAX, v |-> <<"O", "N">>]>>),
      Source(<<[k |-> NameX, v |-> <<"x">>], [k |-> NameY, v |-> <<>>]>>) }

\* os.environ while the parser is used
ParserEnv == <<[k |-> NameX, v |-> <<"7">>], [k |-> NameY, v |-> <<"1">>]>>

LoaderIdle ==
    /\ fs = [p \in Paths |-> NoFile]
    /\ dotenv = [path |-> ".env", vars |-> <<>>]
    /\ other = NoInstance
    /\ pc = "idle"
    /\ frame = NoFrame

ParserInit ==
    /\ environ = ParserEnv
    /\ pvars = <<>>
    /\ values = <<>>
    /\ prefix = <<>>
    /\ regOrder = <<>>
    /\ call = NoCall
    /\ LoaderIdle

ParserNext ==
    \/ \E a \in AddArgs : Add(a.name, a.decl)
    \/ \E p \in {<<>>, <<"a">>} : SetPrefix(p)
    \/ \E src \in Sources : Parse(src)

SpecParser == ParserInit /\ [][ParserNext]_vars

-----------------------------------------------------------------------------
(* EnvManager *)

MsgMissing ==
    <<"M", "i", "s", "s", "i", "n", "g", " ", "r", "e", "q", "u", "i", "r", "e", "d", " ",
      "e", "n", "v", " ", "v", "a", "r", "s", ":", " ">>

MsgComma == <<",", " ">>

RECURSIVE RequireLoopFirst(_, _, _)
\* the loop of require, left at the first missing name
RequireLoopFirst(names, env, acc) ==
    IF names = <<>> \/ acc.missing # <<>> THEN acc
    ELSE IF ~DictHas(env, names[1])
    THEN RequireLoopFirst(Tail(names), env, [acc EXCEPT !.missing = Append(@, names[1])])
    ELSE RequireLoopFirst(Tail(names), env,
             [acc EXCEPT !.result = DictSet(@, names[1], DictGet(env, names[1], <<>>))])

RECURSIVE RequireLoop(_, _, _)
\* the loop of EnvManager.require: acc is [result, missing]
RequireLoop(names, env, acc) ==
    IF names = <<>> THEN acc
    ELSE IF ~DictHas(env, names[1])
    THEN RequireLoop(Tail(names), env, [acc EXCEPT !.missing = Append(@, names[1])])
    ELSE RequireLoop(Tail(names), env,
             [acc EXCEPT !.result = DictSet(@, names[1], DictGet(env, names[1], <<>>))])

\* EnvManager.require, and the module's require
MgrRequire(names) ==
    LET acc == RequireLoop(names, environ, [result |-> <<>>, missing |-> <<>>])
    IN  /\ call' = IF acc.missing # <<>>
                   THEN [op |-> "require", names |-> names, raised |-> TRUE,
                         message |-> MsgMissing \o Join(acc.missing, MsgComma),
                         ret |-> <<>>]
                   ELSE [op |-> "require", names |-> names, raised |-> FALSE,
                         message |-> <<>>, ret |-> acc.result]
        /\ UNCHANGED <<environ, parserVars, loaderVars>>

\* EnvManager.set
MgrSet(name, value) ==
    /\ environ' = DictSet(environ, name, value)
    /\ call' = [op |-> "set"]
    /\ UNCHANGED <<parserVars, loaderVars>>

-----------------------------------------------------------------------------
(* The facade's reads of the process environment: set and require *)

ManagerInit ==
    /\ environ = <<>>
    /\ call = NoCall
    /\ ParserIdle
    /\ LoaderIdle

ManagerNext ==
    \/ \E n \in {KeyA, KeyB, KeyC}, v \in {<<>>, <<"1">>} : MgrSet(n, v)
    \/ \E names \in SeqsUpTo({KeyA, KeyB, KeyC}, MaxNames) : MgrRequire(names)

SpecManager == ManagerInit /\ [][ManagerNext]_vars

-----------------------------------------------------------------------------
(* Claims about the loader *)

\* the line DotEnv.load is about to process
CurLine == Head(frame.lines)

\* DotEnv.load is about to process a KEY=VALUE line
Assigning == pc = "loading" /\ frame.lines # <<>> /\ ~Skipped(CurLine)

\* the line's final value: unquoted, then interpolated
FinalValue == Interpolate(LineValue(CurLine), environ, dotenv.vars)

SameAt(d1, d2, k) ==
    /\ DictHas(d1, k) <=> DictHas(d2, k)
    /\ DictGet(d1, k, <<>>) = DictGet(d2, k, <<>>)

Stored(d, k, v) == DictHas(d, k) /\ DictGet(d, k, <<>>) = v

\* C3: for every KEY=VALUE line load processes: with override false and KEY in
\* the process environment, the environment's value of KEY is left as it was;
\* with override true or KEY absent, it becomes the line's final value.  Either
\* way the loader's mapping holds the final value under KEY, and no other key
\* of the process environment changes.
C3_OverridePolicy ==
    [][Assigning =>
        LET key == LineKey(CurLine)
        IN  /\ (~frame.override /\ DictHas(environ, key)) => SameAt(environ', environ, key)
            /\ (frame.override \/ ~DictHas(environ, key)) => Stored(environ', key, FinalValue)
            /\ Stored(dotenv'.vars, key, FinalValue)
            /\ \A k \in DictKeys(environ) \cup DictKeys(environ') :
                   k # key => SameAt(environ', environ, k)]_vars

\* a load without override has stored A in its mapping and left the different
\* value the process environment already held
C3_Witness ==
    /\ pc = "loading"
    /\ ~frame.override
    /\ DictHas(frame.first, KeyA)
    /\ DictHas(frame.startEnv, KeyA)
    /\ DictGet(environ, KeyA, <<>>) = DictGet(frame.startEnv, KeyA, <<>>)
    /\ DictGet(dotenv.vars, KeyA, <<>>) # DictGet(environ, KeyA, <<>>)

\* C4: a load(override=false) that directly follows a load(override=false) of
\* the same unchanged file changes nothing in the process environment: after
\* it the environment is what it was after the first load.
C4_LoadIdempotent ==
    [][(pc = "loading" /\ frame.again) => environ' = environ]_vars

\* the second load has computed, by interpolation, a value for B that differs
\* from the one the first load wrote to the process environment, and the file
\* is exhausted
C4_Witness ==
    /\ pc = "loading"
    /\ frame.again
    /\ frame.lines = <<>>
    /\ environ = frame.startEnv
    /\ DictHas(environ, KeyB)
    /\ DictHas(frame.first, KeyB)
    /\ DictGet(dotenv.vars, KeyB, <<>>) # DictGet(environ, KeyB, <<>>)

RECURSIVE RefNamesOf(_)
RefNamesOf(toks) ==
    IF toks = <<>> THEN {}
    ELSE (IF toks[1].ref THEN {toks[1].text} ELSE {}) \cup RefNamesOf(Tail(toks))

\* the names a value references by $NAME or ${NAME}
RefNames(value) == RefNamesOf(Tokens(value, 1))

\* the keys earlier lines of this pass have defined
PassKeys == DictKeys(frame.first)

\* the lookup in which a key defined earlier in this pass stands for the value
\* accumulated for it, and any other name for what the code finds
Accumulated ==
    SelectSeq(dotenv.vars, LAMBDA e : e.k \in PassKeys)
        \o SelectSeq(environ, LAMBDA e : e.k \notin PassKeys)
        \o SelectSeq(dotenv.vars, LAMBDA e : e.k \notin PassKeys /\ ~DictHas(environ, e.k))

\* the line's value with every reference replaced by what Accumulated holds
Resolved == Substitute(Tokens(LineValue(CurLine), 1), Accumulated, <<>>)

TextA1B == <<"A", "=", "1", "\n", "B", "=", "$", "A", "-", "2">>

\* load has just returned from the file A=1, B=$A-2
LoadedA1B ==
    /\ pc = "idle"
    /\ call.op = "load"
    /\ call.found
    /\ fs[call.path].text = TextA1B

YieldsA1B ==
    /\ Stored(call.ret, KeyA, <<"1">>)
    /\ Stored(call.ret, KeyB, <<"1", "-", "2">>)

\* C6 as stated: a reference to a key defined on an earlier line is replaced
\* by the value accumulated for that key in this pass, and the file A=1,
\* B=$A-2 yields A = "1" and B = "1-2".
C6_AsStated ==
    [][/\ Assigning =>
            Stored(dotenv'.vars, LineKey(CurLine), Resolved)
       /\ LoadedA1B' => YieldsA1B']_vars

\* the process environment holds the value accumulated for key n: the pass
\* overrides, or n was not in the environment when the pass began and its
\* accumulated value is still the one its first defining line stored
EnvFollows(n) ==
    \/ frame.override
    \/ /\ ~DictHas(frame.startEnv, n)
       /\ DictGet(frame.first, n, <<>>) = DictGet(dotenv.vars, n, <<>>)

\* C6 as amended: the reference is replaced by the accumulated value whenever
\* the pass overrides, or the key was absent from the process environment when
\* the pass began and its accumulated value is that of its first definition
\* (otherwise the process environment's own value is substituted); the file
\* A=1, B=$A-2 yields A = "1", B = "1-2" when override is true or A was not
\* in the process environment.
C6_InterpolationOrdering ==
    [][/\ (Assigning /\ \A n \in RefNames(LineValue(CurLine)) \cap PassKeys : EnvFollows(n)) =>
            Stored(dotenv'.vars, LineKey(CurLine), Resolved)
       /\ (LoadedA1B' /\ (frame.override \/ ~DictHas(frame.startEnv, KeyA))) => YieldsA1B']_vars

\* a load of A=1, B=$A-2 into an environment without A has returned
C6_Witness ==
    /\ LoadedA1B
    /\ ~call.override
    /\ YieldsA1B
    /\ Stored(environ, KeyB, <<"1", "-", "2">>)

\* a fresh loader's load has just returned from the file that the loader used
\* before it saved at the same path
RoundTripDone ==
    /\ pc = "idle"
    /\ call.op = "load"
    /\ call.found
    /\ call.fresh
    /\ call.path = other.path
    /\ fs[call.path].text = SaveText(other.vars)

NoSpaceNoEquals(d) ==
    \A i \in 1..Len(d) : ~Contains(d[i].v, " ") /\ ~Contains(d[i].v, "=")

\* C5 as stated: for any loader mapping in which no value contains a space or
\* an "=", save() followed by load() on a fresh loader at the same path
\* reproduces the mapping: the same keys with the same values.
C5_AsStated ==
    (RoundTripDone /\ NoSpaceNoEquals(other.vars)) => DictEq(call.ret, other.vars)

\* a value that load reads back as save wrote it: no reference, no line break,
\* and, when save writes it bare, no whitespace at its ends and no enclosing
\* pair of quotes
ReadsBack(v) ==
    /\ RefNames(v) = {}
    /\ ~Contains(v, "\n")
    /\ ~Contains(v, "\r")
    /\ (Contains(v, " ") \/ Contains(v, "=")) \/ (Strip(v) = v /\ Unquote(v) = v)

\* C5 as amended: for any loader mapping under plain names in which no value
\* holds a $NAME or ${NAME} reference or a line break, and no value free of
\* spaces and "=" starts or ends with whitespace or is enclosed in quotes,
\* save() followed by load() on a fresh loader at the same path reproduces the
\* mapping; values with a space or an "=" are written quoted and read back.
C5_RoundTrip ==
    (RoundTripDone /\ \A i \in 1..Len(other.vars) : ReadsBack(other.vars[i].v))
        => DictEq(call.ret, other.vars)

\* a round trip of a two-entry mapping, one value with a leading space and one
\* with an "=", has reproduced it
C5_Witness ==
    /\ RoundTripDone
    /\ other.vars = <<[k |-> KeyA, v |-> <<" ", "x">>], [k |-> KeyB, v |-> <<"a", "=", "b">>]>>
    /\ DictEq(call.ret, other.vars)

\* C9: no operation removes a key from the loader's mapping, and a load of an
\* existing file returns the whole mapping: the keys this call stored and the
\* keys earlier load and set calls had stored.
C9_IncrementalMerge ==
    [][/\ DictKeys(dotenv.vars) \subseteq DictKeys(dotenv'.vars)
       /\ (pc = "loading" /\ pc' = "idle") =>
            /\ call'.ret = dotenv'.vars
            /\ PassKeys \subseteq DictKeys(call'.ret)
            /\ DictKeys(frame.startVars) \subseteq DictKeys(call'.ret)]_vars

\* load_dotenv has returned from alt.env, which defines only C, with A (loaded
\* from .env) and B (stored by set) still in the mapping
C9_Witness ==
    /\ pc = "idle"
    /\ call.op = "load"
    /\ call.path = "alt.env"
    /\ call.found
    /\ fs["alt.env"].text = <<"C", "=", "3">>
    /\ DictKeys(call.ret) = {KeyA, KeyB, KeyC}

-----------------------------------------------------------------------------
(* Claims about the parser *)

\* whether parse, reading env, records an error for the spec
Fails(full_name, var, env) ==
    IF ~DictHas(env, full_name) THEN var.required
    ELSE LET conv == Convert(DictGet(env, full_name, <<>>), var.type)
         IN  \/ ~conv.ok
             \/ var.choices # <<>> /\ ~InChoices(conv.value, var.choices)
             \/ var.validator # "none" /\ ~Accepts(var.validator, conv.value)

\* the entry of the aggregate message for a failing spec
Entry(full_name, var, env) ==
    IF ~DictHas(env, full_name) THEN full_name \o MsgRequired
    ELSE LET conv == Convert(DictGet(env, full_name, <<>>), var.type)
         IN  IF ~conv.ok THEN full_name \o MsgColon \o conv.msg
             ELSE IF var.choices # <<>> /\ ~InChoices(conv.value, var.choices)
             THEN full_name \o MsgChoices \o ReprList(var.choices)
             ELSE full_name \o MsgValidation

\* the failing specs of the registry, in its order
Failing(env) == SelectSeq(pvars, LAMBDA e : Fails(e.k, e.v, env))

\* one entry per failing spec, joined by "; ", in the EnvValidationError
Aggregate(env) ==
    MsgInvalidEnv \o
        Join([i \in 1..Len(Failing(env)) |-> Entry(Failing(env)[i].k, Failing(env)[i].v, env)],
             MsgSep)

\* the source environment of the last parse call: the mapping it was given,
\* or the process environment when it was given none
GivenEnv == IF call.src.given THEN call.src.map ELSE environ

\* C1: for any registry and any source environment, parse raises iff at least
\* one spec fails in that source environment, and then raises one
\* EnvValidationError whose message holds exactly one entry per failing spec, in
\* registry order, joined by "; ".
C1_AsStated ==
    call.op = "parse" =>
        /\ call.raised <=> Failing(GivenEnv) # <<>>
        /\ call.raised => call.message = Aggregate(GivenEnv)

\* C2: a parse call that fails leaves the cached result (values, as get and
\* attribute access read it) as it was before the call; a parse call that
\* succeeds replaces it with the mapping it returns.
C2_NoPartialCommit ==
    [][call'.op = "parse" =>
        /\ call'.raised =>
              /\ values' = values
              /\ \A n \in {NameX, NameY} :
                    /\ ParserGet(n, NoneV)' = ParserGet(n, NoneV)
                    /\ ParserGetAttr(n)' = ParserGetAttr(n)
        /\ ~call'.raised =>
              /\ values' = call'.result
              /\ \A n \in {NameX, NameY} :
                    /\ ParserGet(n, NoneV)' = DictGet(call'.result, n, NoneV)
                    /\ ParserGetAttr(n)' = DictGet(call'.result, n, NoneV)]_vars

\* a parse of a two-spec registry has failed on Y alone, and the cached result
\* of an earlier parse, which holds X only, is still in place
C2_Witness ==
    /\ call.op = "parse"
    /\ call.raised
    /\ Len(pvars) = 2
    /\ Len(Failing(EffectiveEnv(call.src, environ))) = 1
    /\ DictKeys(values) = {NameX}

\* what the parse loop computes from the given mapping alone
FromGiven == ParseLoop(pvars, call.src.map, [result |-> <<>>, errors |-> <<>>])

\* C7: when parse is called with an explicit source mapping, every full name
\* is looked up in that mapping and nowhere else: the outcome is the one the
\* mapping alone determines, whatever the process environment holds.
C7_AsStated ==
    (call.op = "parse" /\ call.src.given) =>
        /\ call.raised <=> FromGiven.errors # <<>>
        /\ ~call.raised => call.result = FromGiven.result

\* the value parse computes for a spec
Computed(full_name, var, env) ==
    IF ~DictHas(env, full_name) THEN var.default
    ELSE Convert(DictGet(env, full_name, <<>>), var.type).value

ShortNames == {pvars[i].v.name : i \in 1..Len(pvars)}

\* the place of a full name in the order of the add calls
RegPos(full_name) == CHOOSE i \in 1..Len(regOrder) : regOrder[i] = full_name

\* the specs registered under short name n
Sharing(n) == {i \in 1..Len(pvars) : pvars[i].v.name = n}

\* C10 as stated: the result of a successful parse is keyed by the unprefixed
\* names of the registered specs, and when specs with different full names
\* share an unprefixed name, the single entry under that name holds the value
\* computed for the spec registered (by add) last.
C10_AsStated ==
    (call.op = "parse" /\ ~call.raised) =>
        /\ DictKeys(call.result) = ShortNames
        /\ \A n \in ShortNames :
              LET last == CHOOSE i \in Sharing(n) :
                              \A j \in Sharing(n) : RegPos(pvars[j].k) <= RegPos(pvars[i].k)
              IN  DictGet(call.result, n, NoneV)
                      = Computed(pvars[last].k, pvars[last].v, EffectiveEnv(call.src, environ))

\* C10 as amended: the result of a successful parse is keyed by the unprefixed
\* names of the registered specs, and when specs with different full names
\* share an unprefixed name, the single entry under that name holds the value
\* computed for the spec that stands last in the registry, the one whose full
\* name was first added last: adding a full name again replaces its spec in
\* place.
C10_ShortNameCollision ==
    (call.op = "parse" /\ ~call.raised) =>
        /\ DictKeys(call.result) = ShortNames
        /\ \A n \in ShortNames :
              LET last == CHOOSE i \in Sharing(n) : \A j \in Sharing(n) : j <= i
              IN  DictGet(call.result, n, NoneV)
                      = Computed(pvars[last].k, pvars[last].v, EffectiveEnv(call.src, environ))

\* a parse has succeeded on a registry that holds X and A_X, X added again
\* after A_X, and their computed values differ
C10_Witness ==
    /\ call.op = "parse"
    /\ ~call.raised
    /\ Len(pvars) = 2
    /\ pvars[1].k = NameX
    /\ pvars[2].k = FullAX
    /\ regOrder = <<FullAX, NameX>>
    /\ Computed(pvars[1].k, pvars[1].v, EffectiveEnv(call.src, environ))
           # Computed(pvars[2].k, pvars[2].v, EffectiveEnv(call.src, environ))

-----------------------------------------------------------------------------
(* Claims about the facade *)

\* the names of the sequence that the environment lacks
Absent(names, env) == SelectSeq(names, LAMBDA n : ~DictHas(env, n))

SeqSet(q) == {q[i] : i \in 1..Len(q)}

\* C8: if a name given to require is absent from the process environment, the
\* call fails with one EnvError whose message names every absent name, in
\* argument order, and no present one; otherwise it returns a mapping whose
\* keys are the given names, each with its value in the process environment.
\* The process environment is unchanged either way.
C8_Require ==
    [][call'.op = "require" =>
        /\ environ' = environ
        /\ IF Absent(call'.names, environ) # <<>>
           THEN /\ call'.raised
                /\ call'.message = MsgMissing \o Join(Absent(call'.names, environ), MsgComma)
           ELSE /\ ~call'.raised
                /\ DictKeys(call'.ret) = SeqSet(call'.names)
                /\ \A n \in SeqSet(call'.names) :
                       DictHas(environ, n) /\ DictGet(call'.ret, n, <<>>) = DictGet(environ, n, <<>>)]_vars

\* require(C, A, B) -- or require(A, B) -- has failed with A set to the empty
\* string and the other names absent
C8_Witness ==
    /\ call.op = "require"
    /\ call.raised
    /\ Len(call.names) = MaxNames
    /\ Stored(environ, KeyA, <<>>)
    /\ KeyA \in SeqSet(call.names)
    /\ Len(Absent(call.names, environ)) = MaxNames - 1

=============================================================================
